---- MODULE Spec2Model ----
(***************************************************************************)
(* Husqvarna Svartpilen 401 OBD2 reader: the Frame Transport and the       *)
(* diagnostic request/response engine (mcp2515_driver.cpp and              *)
(* can_driver.cpp), the telemetry aggregator (obd2_handler.cpp), the BLE   *)
(* transport (ble_service.cpp) and the control loop (main.cpp).            *)
(*                                                                         *)
(* Time is the millisecond counter millis(): `uptime' is the time since    *)
(* boot, and the code reads Millis, its low 32 bits.                       *)
(***************************************************************************)
EXTENDS Integers, Sequences, FiniteSets, TLC

VARIABLES
    uptime,              \* milliseconds since boot (millis() before it is cut to 32 bits)
    can_initialized,     \* can_driver.cpp: static bool can_initialized
    aw,                  \* the last CAN_ReceiveOBD2Response call: its arguments and what it returned
    tx,                  \* the last CAN_SendOBD2Request call: its argument, the frames it
                         \* handed to CAN_SendFrame, the packets written and what it returned
    vehicle_data,        \* obd2_handler.cpp: static VehicleData_t vehicle_data
    obd2_initialized,    \* obd2_handler.cpp: static bool obd2_initialized
    data_callback,       \* obd2_handler.cpp: data_callback != nullptr
    last_vehicle_data,   \* main.cpp: the copy vehicle_data_callback keeps
    cyc,                 \* the last OBD2_ReadAllData call: what it did and returned
    lastRead,            \* the last call of one OBD2_Read* function on its own: the
                         \* response on the bus, the status and what *value holds
    g_bleService,        \* ble_service.cpp: the fields of the OBD2BLEService object
    radio,               \* the BLE stack: getConnectedCount(), whether it advertises, and
                         \* whether the connected peer has fallen silent
    ble,                 \* the last operation on the service and what it returned
    hist,                \* uptime of the last two data notifications and of the last activity
    ticks,               \* how often time was advanced between two operations
    current_state,       \* main.cpp: SystemState_t current_state
    timers               \* main.cpp: the static timestamps of loop() and system_task(),
                         \* and the number of loop() iterations so far

canVars == <<can_initialized, aw, tx>>
obdVars ==
    <<vehicle_data, obd2_initialized, data_callback, last_vehicle_data, cyc, lastRead>>
bleVars == <<g_bleService, radio, ble, hist, ticks>>
loopVars == <<current_state, timers>>
vars == <<uptime, canVars, obdVars, bleVars, loopVars>>

-----------------------------------------------------------------------------
(* common_types.h *)

STATUS_OK == 0
STATUS_ERROR == 1
STATUS_TIMEOUT == 2
STATUS_INVALID_PARAM == 3
STATUS_NOT_INITIALIZED == 4

PID_ENGINE_RPM == 12
PID_VEHICLE_SPEED == 13
PID_ENGINE_COOLANT_TEMP == 5
PID_THROTTLE_POSITION == 17

OBD2_REQUEST_TIMEOUT_MS == 500

SYSTEM_STATE_INIT == 0
SYSTEM_STATE_IDLE == 1
SYSTEM_STATE_CONNECTING == 2
SYSTEM_STATE_CONNECTED == 3
SYSTEM_STATE_READING_DATA == 4
SYSTEM_STATE_ERROR == 5

\* uint32_t: millis() and every timestamp the code keeps wrap around.  TLC's
\* integers end at 2^31 - 1, so the counter is kept with 30 bits instead of 32:
\* the code only ever subtracts two readings and compares the difference with a
\* constant of at most 10000.
ClockMod == 1073741824

\* uint8_t
ByteMod == 256

Millis == uptime % ClockMod

\* a - b on uint32_t
Sub(a, b) == (a - b) % ClockMod

\* conversion to uint8_t
Byte(n) == n % ByteMod

Min(a, b) == IF a <= b THEN a ELSE b

-----------------------------------------------------------------------------
(* Bounds of the check *)

\* packets on the bus during one wait
MaxRx == 2
\* the largest timeout_ms handed to a wait that is checked on its own
MaxTimeoutMs == 3
\* the wait may start this many milliseconds before millis() wraps
WrapLead == 2
\* poll cycles in one behaviour of the aggregator on its own
MaxCycles == 2
\* steps of time (and disconnects, which take time) between the operations of the
\* BLE service
MaxTicks == 5
\* rounds of the 2 s watchdog cadence
MaxRounds == 9
\* iterations of loop()
MaxLoops == 12

-----------------------------------------------------------------------------
(* The bus.  A packet is what CAN.parsePacket()/packetId()/read() deliver:   *)
(* an identifier, a length and that many data bytes; `gap' is the time, in   *)
(* ms, between the arrival of the previous packet (or the call) and its own. *)

OBD_RESPONSE_POSITIVE == 65
OBD_ID_FIRST == 2024
OBD_ID_LAST == 2031
OBD_ID_REQUEST == 2015

Payloads ==
    { <<4, 65, 12, 15, 160>>,          \* RPM response, A = 0x0F, B = 0xA0
      <<4, 65, 12, 15, 160, 170, 187, 204>>,   \* the same, padded to 8 bytes
      <<2, 65, 12>>,                   \* RPM response without data bytes
      <<3, 65, 13, 80>>,               \* vehicle speed response
      <<2, 65>>,                       \* two bytes only
      <<3, 127, 1, 18>> }              \* negative response

BusPackets ==
    { [id |-> OBD_ID_FIRST, data |-> d] : d \in Payloads }
    \cup { [id |-> i, data |-> <<4, 65, 12, 15, 160>>] :
             i \in {OBD_ID_FIRST - 1, OBD_ID_LAST, OBD_ID_LAST + 1} }

TimedPackets ==
    { [id |-> p.id, length |-> Len(p.data), data |-> p.data, gap |-> g] :
        p \in BusPackets, g \in {0, 1} }

RECURSIVE SchedsOfLen(_)
SchedsOfLen(n) ==
    IF n = 0 THEN { <<>> }
    ELSE { <<p>> \o s : p \in TimedPackets, s \in SchedsOfLen(n - 1) }

Scheds == UNION { SchedsOfLen(n) : n \in 0..MaxRx }

\* what an uninitialised CAN_Frame_t on the stack may hold
StaleFrames ==
    { [id |-> 0, length |-> 0, data |-> <<0, 0, 0, 0, 0, 0, 0, 0>>],
      [id |-> OBD_ID_FIRST, length |-> 8, data |-> <<3, 65, 12, 255, 255, 255, 255, 255>>] }

WaitPids == {PID_ENGINE_RPM, PID_VEHICLE_SPEED}

\* CAN.parsePacket() > 0 at `el' ms after the call: the head of the schedule has
\* arrived (the packet before it arrived at `last')
Arrived(sched, last, el) == sched # <<>> /\ last + Head(sched).gap <= el

\* the first poll, not before `el' and not after `until', that can find a packet
NextPoll(sched, last, until) ==
    IF sched = <<>> THEN until ELSE Min(last + Head(sched).gap, until)

-----------------------------------------------------------------------------
(* mcp2515_driver.cpp *)

\* CAN_ReceiveFrame, once a packet is there: id and length are taken from the
\* packet and the first min(length, 8) data bytes are overwritten
FillFrame(frame, pkt) ==
    [id |-> pkt.id,
     length |-> Byte(pkt.length),
     data |-> [i \in 1..8 |-> IF i <= pkt.length THEN pkt.data[i] ELSE frame.data[i]]]

\* (mutant of MCP_Accepts: the identifier range is not tested)
MCP_Accepts_AnyId(frame, pid) ==
    frame.length >= 3 /\ frame.data[2] = OBD_RESPONSE_POSITIVE /\ frame.data[3] = pid

\* the test of CAN_ReceiveOBD2Response on a received frame
MCP_Accepts(frame, pid) ==
    /\ frame.id >= OBD_ID_FIRST /\ frame.id <= OBD_ID_LAST
    /\ frame.length >= 3 /\ frame.data[2] = OBD_RESPONSE_POSITIVE /\ frame.data[3] = pid

\* *length = frame.length - 3; data[i] = frame.data[3 + i] for i < *length && i < 5
MCP_Extract(frame) ==
    LET n == Byte(frame.length - 3) IN
    [length |-> n, data |-> [i \in 1..Min(n, 5) |-> frame.data[3 + i]]]

\* The loop of CAN_ReceiveOBD2Response.  el: ms since the call; last: el when the
\* previous packet arrived; an iteration that finds no packet only sleeps 1 ms, and
\* the iterations up to the next arrival (or the timeout) are taken together.
RECURSIVE MCP_AwaitLoop(_, _, _, _, _, _, _, _)
MCP_AwaitLoop(pid, timeout_ms, start_time, el, last, sched, frame, seen) ==
    IF ~(Sub((start_time + el) % ClockMod, start_time) < timeout_ms)
    THEN [status |-> STATUS_TIMEOUT, length |-> 0, data |-> <<>>, el |-> el,
          frame |-> frame, seen |-> seen, rest |-> sched]
    ELSE IF Arrived(sched, last, el)
    THEN LET pkt == Head(sched)
             got == FillFrame(frame, pkt)
         IN  IF pkt.length <= 0
             THEN MCP_AwaitLoop(pid, timeout_ms, start_time, el + 1, last + pkt.gap,
                                Tail(sched), frame, seen)
             ELSE IF MCP_Accepts(got, pid)
             THEN [status |-> STATUS_OK, length |-> MCP_Extract(got).length,
                   data |-> MCP_Extract(got).data, el |-> el,
                   frame |-> got, seen |-> Append(seen, pkt), rest |-> Tail(sched)]
             ELSE MCP_AwaitLoop(pid, timeout_ms, start_time, el + 1, last + pkt.gap,
                                Tail(sched), got, Append(seen, pkt))
    ELSE MCP_AwaitLoop(pid, timeout_ms, start_time, NextPoll(sched, last, timeout_ms),
                       last, sched, frame, seen)

MCP_ReceiveOBD2Response(pid, timeout_ms, start_time, sched, frame) ==
    MCP_AwaitLoop(pid, timeout_ms, start_time, 0, 0, sched, frame, <<>>)

-----------------------------------------------------------------------------
(* can_driver.cpp *)

\* CAN_ReceiveFrame(frame, timeout_ms): returns the first packet with
\* packet_size > 0, or STATUS_TIMEOUT
RECURSIVE DRV_ReceiveFrame(_, _, _, _, _, _)
DRV_ReceiveFrame(timeout_ms, start_time, el, last, sched, frame) ==
    IF ~(Sub((start_time + el) % ClockMod, start_time) < timeout_ms)
    THEN [status |-> STATUS_TIMEOUT, el |-> el, frame |-> frame, seen |-> <<>>,
          rest |-> sched]
    ELSE IF Arrived(sched, last, el)
    THEN LET pkt == Head(sched) IN
         IF pkt.length > 0
         THEN [status |-> STATUS_OK, el |-> el, frame |-> FillFrame(frame, pkt),
               seen |-> <<pkt>>, rest |-> Tail(sched)]
         ELSE DRV_ReceiveFrame(timeout_ms, start_time, el + 1, last + pkt.gap,
                               Tail(sched), frame)
    ELSE DRV_ReceiveFrame(timeout_ms, start_time, NextPoll(sched, last, timeout_ms),
                          last, sched, frame)

\* *length = frame.data[0] - 2; data[i] = frame.data[3 + i] for i < *length && i < 5
DRV_Extract(frame) ==
    LET n == Byte(frame.data[1] - 2) IN
    [length |-> n, data |-> [i \in 1..Min(n, 5) |-> frame.data[3 + i]]]

DRV_ReceiveOBD2Response(initialized, pid, timeout_ms, start_time, sched, frame) ==
    LET r == DRV_ReceiveFrame(timeout_ms, start_time, 0, 0, sched, frame)
        fail(st) == [status |-> st, length |-> 0, data |-> <<>>, el |-> r.el,
                     frame |-> r.frame, seen |-> r.seen, rest |-> r.rest]
    IN  IF ~initialized
        THEN [status |-> STATUS_INVALID_PARAM, length |-> 0, data |-> <<>>, el |-> 0,
              frame |-> frame, seen |-> <<>>, rest |-> sched]
        ELSE IF r.status # STATUS_OK THEN fail(r.status)
        ELSE IF r.frame.id < OBD_ID_FIRST \/ r.frame.id > OBD_ID_LAST THEN fail(STATUS_ERROR)
        ELSE IF r.frame.length < 3 THEN fail(STATUS_ERROR)
        ELSE IF r.frame.data[2] # OBD_RESPONSE_POSITIVE \/ r.frame.data[3] # pid
             THEN fail(STATUS_ERROR)
        ELSE [status |-> STATUS_OK, length |-> DRV_Extract(r.frame).length,
              data |-> DRV_Extract(r.frame).data, el |-> r.el,
              frame |-> r.frame, seen |-> r.seen, rest |-> r.rest]

-----------------------------------------------------------------------------
(* obd2_handler.cpp *)

Uint16Mod == 65536

\* conversion to int8_t
ToInt8(n) == ((n + 128) % ByteMod) - 128

\* static VehicleData_t vehicle_data = {0}
ZeroVehicleData ==
    [rpm |-> 0, speed |-> 0, coolantTemp |-> 0, throttlePosition |-> 0,
     fuelLevel |-> 0, engineRuntime |-> 0,
     engineRunning |-> FALSE, dataValid |-> FALSE, lastUpdate |-> 0]

\* The bus during one of the four requests of a cycle: whether CAN_SendFrame
\* succeeds, and the packets that arrive while the handler waits.
Response(data) == [id |-> OBD_ID_FIRST, length |-> Len(data), data |-> data, gap |-> 0]

Responses(pid) ==
    IF pid = PID_ENGINE_RPM
    THEN { Response(<<4, 65, 12, 15, 160>>),     \* 1000 rpm
           Response(<<4, 65, 12, 0, 0>>),        \* 0 rpm, engine stopped
           Response(<<2, 65, 12>>) }             \* no data bytes
    ELSE IF pid = PID_VEHICLE_SPEED
    THEN { Response(<<3, 65, 13, 80>>) }
    ELSE IF pid = PID_ENGINE_COOLANT_TEMP
    THEN { Response(<<3, 65, 5, 125>>),          \* 85 C
           Response(<<3, 65, 5, 200>>) }         \* 160 C
    ELSE { Response(<<3, 65, 17, 128>>) }        \* 50 %

ReadEnvs(pid) ==
    { [sendOk |-> FALSE, sched |-> <<>>],        \* CAN.endPacket() fails
      [sendOk |-> TRUE, sched |-> <<>>] }        \* nobody answers
    \cup { [sendOk |-> TRUE, sched |-> <<p>>] : p \in Responses(pid) }

CycleEnvs ==
    ReadEnvs(PID_ENGINE_RPM) \X ReadEnvs(PID_VEHICLE_SPEED)
        \X ReadEnvs(PID_ENGINE_COOLANT_TEMP) \X ReadEnvs(PID_THROTTLE_POSITION)

\* (mutant of RequestFrame: the PID byte is left 0)
RequestFrame_NoPid(pid) ==
    [id |-> OBD_ID_REQUEST, length |-> 8, extended |-> FALSE, remote |-> FALSE,
     data |-> <<2, 1, 0, 0, 0, 0, 0, 0>>]

\* mcp2515_driver.cpp CAN_SendOBD2Request: the frame it hands to CAN_SendFrame
RequestFrame(pid) ==
    [id |-> OBD_ID_REQUEST, length |-> 8, extended |-> FALSE, remote |-> FALSE,
     data |-> <<2, 1, pid, 0, 0, 0, 0, 0>>]

\* the bytes CAN.write is given: frame->data[i] for i < frame->length; data has 8
\* elements, and what is read past its end is `junk'
Written(frame, junk) ==
    [i \in 1..frame.length |-> IF i <= 8 THEN frame.data[i] ELSE junk]

\* what CAN.beginPacket / beginExtendedPacket, CAN.write and CAN.endPacket are
\* given: one packet for the controller
Packet(id, extended, rtr, data) ==
    [id |-> id, extended |-> extended, remote |-> rtr, data |-> data]

\* mcp2515_driver.cpp CAN_SendFrame: CAN.beginPacket(id, length, remote), the data
\* bytes, CAN.endPacket() == 1.  lib: whether CAN.endPacket() returns 1, and what
\* lies behind frame->data
MCP_SendFrame(frame, lib) ==
    [ok |-> lib.endOk,
     wire |-> <<Packet(frame.id, FALSE, frame.remote, Written(frame, lib.junk))>>]

\* mcp2515_driver.cpp CAN_SendOBD2Request
MCP_SendOBD2Request(pid, endOk) ==
    LET frame == RequestFrame(pid)
        sent == MCP_SendFrame(frame, [endOk |-> endOk, junk |-> 0])
    IN  [status |-> IF sent.ok THEN STATUS_OK ELSE STATUS_ERROR,
         handed |-> <<frame>>, wire |-> sent.wire]

\* can_driver.cpp CAN_SendFrame
DRV_SendFrame(initialized, frame, endOk) ==
    IF ~initialized THEN [status |-> STATUS_INVALID_PARAM, wire |-> <<>>]
    ELSE IF frame.length > 8 THEN [status |-> STATUS_INVALID_PARAM, wire |-> <<>>]
    ELSE [status |-> IF endOk THEN STATUS_OK ELSE STATUS_ERROR,
          wire |-> <<Packet(frame.id, frame.extended, FALSE, Written(frame, 0))>>]

\* can_driver.cpp CAN_SendOBD2Request
DRV_SendOBD2Request(initialized, pid, endOk) ==
    IF ~initialized
    THEN [status |-> STATUS_NOT_INITIALIZED, handed |-> <<>>, wire |-> <<>>]
    ELSE LET frame == RequestFrame(pid)
             sent == DRV_SendFrame(initialized, frame, endOk)
         IN  [status |-> sent.status, handed |-> <<frame>>, wire |-> sent.wire]

\* the request of a read of the handler, over the mcp2515 driver
CAN_SendOBD2Request(pid, env) == MCP_SendOBD2Request(pid, env.sendOk).status

\* what a read returns when the handler is not initialised, and when the
\* request could not be sent: *value is not written
NotRead(status, old, requested) ==
    [status |-> status, value |-> old, el |-> 0, requested |-> requested,
     decoded |-> FALSE]

\* the wait of a read for its response
Await(pid, env, start) ==
    MCP_ReceiveOBD2Response(pid, OBD2_REQUEST_TIMEOUT_MS, start, env.sched,
                            CHOOSE f \in StaleFrames : TRUE)

\* (mutant of DecodeRPM: the division by 4 is left out)
DecodeRPM_NoDivision(data) == (data[1] * 256 + data[2]) % Uint16Mod

\* *rpm = ((uint16_t)data[0] * 256 + data[1]) / 4
DecodeRPM(data) == ((data[1] * 256 + data[2]) \div 4) % Uint16Mod

\* *speed = data[0]
DecodeSpeed(data) == Byte(data[1])

\* *temp = (int8_t)data[0] - 40
DecodeCoolantTemp(data) == ToInt8(ToInt8(data[1]) - 40)

\* (mutant of DecodeThrottle: the byte is scaled by 256 instead of 255)
DecodeThrottle_Per256(data) == Byte((data[1] * 100) \div 256)

\* *throttle = (data[0] * 100) / 255
DecodeThrottle(data) == Byte((data[1] * 100) \div 255)

\* (mutant of OBD2_ReadRPM: a response with too few data bytes leaves *rpm as it was)
OBD2_ReadRPM_KeepsOld(initialized, old, env, start) ==
    IF ~initialized THEN NotRead(STATUS_INVALID_PARAM, old, FALSE)
    ELSE IF CAN_SendOBD2Request(PID_ENGINE_RPM, env) # STATUS_OK
    THEN NotRead(CAN_SendOBD2Request(PID_ENGINE_RPM, env), old, TRUE)
    ELSE LET r == Await(PID_ENGINE_RPM, env, start)
             ok == r.status = STATUS_OK /\ r.length >= 2
         IN  [status |-> r.status, value |-> IF ok THEN DecodeRPM(r.data) ELSE old,
              el |-> r.el, requested |-> TRUE, decoded |-> ok]

OBD2_ReadRPM(initialized, old, env, start) ==
    IF ~initialized THEN NotRead(STATUS_INVALID_PARAM, old, FALSE)
    ELSE IF CAN_SendOBD2Request(PID_ENGINE_RPM, env) # STATUS_OK
    THEN NotRead(CAN_SendOBD2Request(PID_ENGINE_RPM, env), old, TRUE)
    ELSE LET r == Await(PID_ENGINE_RPM, env, start)
             ok == r.status = STATUS_OK /\ r.length >= 2
         IN  [status |-> r.status, value |-> IF ok THEN DecodeRPM(r.data) ELSE 0,
              el |-> r.el, requested |-> TRUE, decoded |-> ok]

\* (mutant of OBD2_ReadSpeed: the read gives up without a request)
OBD2_ReadSpeed_Skipped(initialized, old, env, start) ==
    NotRead(STATUS_ERROR, old, FALSE)

OBD2_ReadSpeed(initialized, old, env, start) ==
    IF ~initialized THEN NotRead(STATUS_INVALID_PARAM, old, FALSE)
    ELSE IF CAN_SendOBD2Request(PID_VEHICLE_SPEED, env) # STATUS_OK
    THEN NotRead(CAN_SendOBD2Request(PID_VEHICLE_SPEED, env), old, TRUE)
    ELSE LET r == Await(PID_VEHICLE_SPEED, env, start)
             ok == r.status = STATUS_OK /\ r.length >= 1
         IN  [status |-> r.status, value |-> IF ok THEN DecodeSpeed(r.data) ELSE 0,
              el |-> r.el, requested |-> TRUE, decoded |-> ok]

OBD2_ReadCoolantTemp(initialized, old, env, start) ==
    IF ~initialized THEN NotRead(STATUS_INVALID_PARAM, old, FALSE)
    ELSE IF CAN_SendOBD2Request(PID_ENGINE_COOLANT_TEMP, env) # STATUS_OK
    THEN NotRead(CAN_SendOBD2Request(PID_ENGINE_COOLANT_TEMP, env), old, TRUE)
    ELSE LET r == Await(PID_ENGINE_COOLANT_TEMP, env, start)
             ok == r.status = STATUS_OK /\ r.length >= 1
         IN  [status |-> r.status, value |-> IF ok THEN DecodeCoolantTemp(r.data) ELSE -40,
              el |-> r.el, requested |-> TRUE, decoded |-> ok]

OBD2_ReadThrottlePosition(initialized, old, env, start) ==
    IF ~initialized THEN NotRead(STATUS_INVALID_PARAM, old, FALSE)
    ELSE IF CAN_SendOBD2Request(PID_THROTTLE_POSITION, env) # STATUS_OK
    THEN NotRead(CAN_SendOBD2Request(PID_THROTTLE_POSITION, env), old, TRUE)
    ELSE LET r == Await(PID_THROTTLE_POSITION, env, start)
             ok == r.status = STATUS_OK /\ r.length >= 1
         IN  [status |-> r.status, value |-> IF ok THEN DecodeThrottle(r.data) ELSE 0,
              el |-> r.el, requested |-> TRUE, decoded |-> ok]

\* delay(10) between two requests
InterRequestDelayMs == 10

NoCycle ==
    [n |-> 0, status |-> STATUS_OK, st |-> <<>>, log |-> <<>>, rpmDecoded |-> FALSE,
     called |-> FALSE]

\* (mutant of CycleValid: every cycle marks the data valid)
CycleValid_Always(overall_status, rpm) == TRUE

\* overall_status == STATUS_OK || vehicle_data.rpm > 0
CycleValid(overall_status, rpm) == overall_status = STATUS_OK \/ rpm > 0

\* (mutant of OverallStatus: only the engine-speed read counts)
OverallStatus_RpmOnly(st) == IF st[1] = STATUS_OK THEN STATUS_OK ELSE STATUS_ERROR

\* overall_status: STATUS_OK at first, STATUS_ERROR once a read returned anything else
OverallStatus(st) == IF \A i \in 1..4 : st[i] = STATUS_OK THEN STATUS_OK ELSE STATUS_ERROR

\* (mutant of EngineRunning: a stopped engine counts as running)
EngineRunning_Always(rpm) == rpm >= 0

\* vehicle_data.engineRunning = (vehicle_data.rpm > 0)
EngineRunning(rpm) == rpm > 0

\* (mutant of NextStart: the next request is sent without waiting for the read
\* before it)
NextStart_Pipelined(t, r) == t

\* when the next read starts: the read started at t has returned and delay(10)
\* has passed
NextStart(t, r) == t + r.el + InterRequestDelayMs

\* what a read started at `start' did on the bus: it called CAN_SendOBD2Request
\* at once and returned after r.el ms (nothing, if it returned before the request)
Trace(pid, r, start) ==
    IF ~r.requested THEN <<>>
    ELSE << [ev |-> "request", pid |-> pid, at |-> start],
            [ev |-> "returned", pid |-> pid, at |-> start + r.el] >>

\* (mutant of NotInitializedCycle: a registered callback is invoked all the same)
NotInitializedCycle_CallsBack(registered, vd, at, n) ==
    [vd |-> vd,
     cyc |-> [n |-> n, status |-> STATUS_NOT_INITIALIZED, st |-> <<>>,
              log |-> <<>>, rpmDecoded |-> FALSE, called |-> registered],
     end |-> at]

\* if (!obd2_initialized) return STATUS_NOT_INITIALIZED
NotInitializedCycle(registered, vd, at, n) ==
    [vd |-> vd,
     cyc |-> [n |-> n, status |-> STATUS_NOT_INITIALIZED, st |-> <<>>,
              log |-> <<>>, rpmDecoded |-> FALSE, called |-> FALSE],
     end |-> at]

\* The body of OBD2_ReadAllData, started `at' ms after boot with the clock reading
\* at % ClockMod: the four reads in their order, 10 ms between them, then the
\* flags, the timestamp and the callback.  vd: vehicle_data before the call.
ReadAllData(initialized, registered, vd, envs, at, n) ==
    IF ~initialized THEN NotInitializedCycle(registered, vd, at, n)
    ELSE
    LET r1 == OBD2_ReadRPM(initialized, vd.rpm, envs[1], at % ClockMod)
        t2 == NextStart(at, r1)
        r2 == OBD2_ReadSpeed(initialized, vd.speed, envs[2], t2 % ClockMod)
        t3 == NextStart(t2, r2)
        r3 == OBD2_ReadCoolantTemp(initialized, vd.coolantTemp, envs[3], t3 % ClockMod)
        t4 == NextStart(t3, r3)
        r4 == OBD2_ReadThrottlePosition(initialized, vd.throttlePosition, envs[4],
                                        t4 % ClockMod)
        end == t4 + r4.el
        st == <<r1.status, r2.status, r3.status, r4.status>>
        overall_status == OverallStatus(st)
        valid == CycleValid(overall_status, r1.value)
    IN  [vd |-> [vd EXCEPT !.rpm = r1.value, !.speed = r2.value,
                           !.coolantTemp = r3.value, !.throttlePosition = r4.value,
                           !.engineRunning = EngineRunning(r1.value),
                           !.lastUpdate = end % ClockMod,
                           !.dataValid = IF valid THEN TRUE ELSE @],
         cyc |-> [n |-> n, status |-> overall_status, st |-> st,
                  log |-> Trace(PID_ENGINE_RPM, r1, at)
                          \o Trace(PID_VEHICLE_SPEED, r2, t2)
                          \o Trace(PID_ENGINE_COOLANT_TEMP, r3, t3)
                          \o Trace(PID_THROTTLE_POSITION, r4, t4),
                  rpmDecoded |-> r1.decoded,
                  called |-> (valid /\ registered)],
         end |-> end]

\* no OBD2_Read* function has been called on its own
NoRead ==
    [pid |-> 0, bytes |-> <<>>, status |-> STATUS_OK, value |-> 0, decoded |-> FALSE,
     log |-> <<>>]

ObdIdle ==
    /\ lastRead = NoRead
    /\ vehicle_data = ZeroVehicleData
    /\ obd2_initialized = FALSE
    /\ data_callback = FALSE
    /\ last_vehicle_data = ZeroVehicleData
    /\ cyc = NoCycle

-----------------------------------------------------------------------------
(* ble_service.cpp *)

\* sendVehicleData: "Min 100ms between sends"
DataSendMinIntervalMs == 100
\* checkConnectionTimeout: the silence after which the session is given up
ActivityTimeoutMs == 10000
\* onDisconnect: delay(1000) before advertising is started again
DisconnectSettleMs == 1000
\* checkConnectionTimeout: delay(500) before advertising is started again
TimeoutSettleMs == 500

\* the constructor OBD2BLEService::OBD2BLEService()
NewService ==
    [deviceConnected |-> FALSE, oldDeviceConnected |-> FALSE,
     lastDataSend |-> 0, lastActivityTime |-> 0]

\* (mutant of OnConnect: the activity timestamp is not reset)
OnConnect_KeepsActivity(s, now) ==
    [s EXCEPT !.deviceConnected = TRUE, !.oldDeviceConnected = TRUE]

\* BLEConnectionCallbacks::onConnect at the clock reading `now'
OnConnect(s, now) ==
    [s EXCEPT !.deviceConnected = TRUE, !.oldDeviceConnected = TRUE,
              !.lastActivityTime = now]

\* (mutant of OnDisconnect: the previous-connected flag is not cleared)
OnDisconnect_KeepsPrevious(s) == [s EXCEPT !.deviceConnected = FALSE]

\* BLEConnectionCallbacks::onDisconnect, before its delay
OnDisconnect(s) ==
    [s EXCEPT !.deviceConnected = FALSE, !.oldDeviceConnected = FALSE]

\* (mutant of NoClient: the connected gate is left out)
NoClient_Never(s) == FALSE

\* if (!deviceConnected)
NoClient(s) == ~s.deviceConnected

\* (mutant of Throttled: every call sends)
Throttled_Never(now, lastDataSend) == FALSE

\* if (now - lastDataSend < 100)
Throttled(now, lastDataSend) == Sub(now, lastDataSend) < DataSendMinIntervalMs

\* (mutant of SendVehicleData: a throttled call counts as activity)
SendVehicleData_ThrottledIsActivity(s, data_null, now) ==
    IF data_null THEN [s |-> s, ret |-> STATUS_ERROR, notified |-> FALSE]
    ELSE IF NoClient(s) THEN [s |-> s, ret |-> STATUS_ERROR, notified |-> FALSE]
    ELSE IF Throttled(now, s.lastDataSend)
    THEN [s |-> [s EXCEPT !.lastActivityTime = now], ret |-> STATUS_OK,
          notified |-> FALSE]
    ELSE [s |-> [s EXCEPT !.lastDataSend = now, !.lastActivityTime = now],
          ret |-> STATUS_OK, notified |-> TRUE]

\* OBD2BLEService::sendVehicleData(data) at the clock reading `now'
SendVehicleData(s, data_null, now) ==
    IF data_null THEN [s |-> s, ret |-> STATUS_ERROR, notified |-> FALSE]
    ELSE IF NoClient(s) THEN [s |-> s, ret |-> STATUS_ERROR, notified |-> FALSE]
    ELSE IF Throttled(now, s.lastDataSend)
    THEN [s |-> s, ret |-> STATUS_OK, notified |-> FALSE]
    ELSE [s |-> [s EXCEPT !.lastDataSend = now, !.lastActivityTime = now],
          ret |-> STATUS_OK, notified |-> TRUE]

\* (mutant of SendSystemStatus: the connected gate is left out)
SendSystemStatus_Ungated(s) == [ret |-> STATUS_OK, notified |-> TRUE]

\* OBD2BLEService::sendSystemStatus
SendSystemStatus(s) ==
    IF NoClient(s) THEN [ret |-> STATUS_ERROR, notified |-> FALSE]
    ELSE [ret |-> STATUS_OK, notified |-> TRUE]

\* OBD2BLEService::updateConnectionStatus, with pServer->getConnectedCount() = count
UpdateConnectionStatus(s, count) ==
    [s EXCEPT !.oldDeviceConnected = (count > 0), !.deviceConnected = (count > 0)]

\* (mutant of SilentTooLong: the watchdog never fires)
SilentTooLong_Never(now, lastActivityTime) == FALSE

\* if (now - lastActivityTime > 10000)
SilentTooLong(now, lastActivityTime) == Sub(now, lastActivityTime) > ActivityTimeoutMs

\* (mutant of CheckConnectionTimeout: the connected gate is left out)
CheckConnectionTimeout_Ungated(s, now) ==
    LET lat == IF s.lastActivityTime = 0 THEN now ELSE s.lastActivityTime IN
    IF SilentTooLong(now, lat)
    THEN [s |-> [s EXCEPT !.deviceConnected = FALSE, !.oldDeviceConnected = FALSE,
                          !.lastActivityTime = 0],
          forced |-> TRUE]
    ELSE [s |-> [s EXCEPT !.lastActivityTime = lat], forced |-> FALSE]

\* OBD2BLEService::checkConnectionTimeout at the clock reading `now'; forced: the
\* session was given up, and advertising is started again 500 ms later
CheckConnectionTimeout(s, now) ==
    IF ~s.deviceConnected THEN [s |-> s, forced |-> FALSE]
    ELSE LET lat == IF s.lastActivityTime = 0 THEN now ELSE s.lastActivityTime IN
         IF SilentTooLong(now, lat)
         THEN [s |-> [s EXCEPT !.deviceConnected = FALSE, !.oldDeviceConnected = FALSE,
                               !.lastActivityTime = 0],
               forced |-> TRUE]
         ELSE [s |-> [s EXCEPT !.lastActivityTime = lat], forced |-> FALSE]

\* (mutant of AdvertisingRestart: advertising is started without the delay)
AdvertisingRestart_AtOnce(at, settle) == at

\* delay(settle); pServer->getAdvertising()->start(): when advertising is started
\* again after a disconnect handled at `at'
AdvertisingRestart(at, settle) == at + settle

NoOp == [op |-> "none", ret |-> STATUS_OK, notified |-> FALSE, forced |-> FALSE]

NoHist == [notePrev |-> -1, noteLast |-> -1, activityAt |-> -1, forcedAt |-> -1,
           connectedAt |-> -1,
           silentAt |-> -1]

\* after BLE_Init with auto_advertise: the service is new and the stack advertises
BleIdle ==
    /\ g_bleService = NewService
    /\ radio = [connectedCount |-> 0, advertising |-> TRUE, peerSilent |-> FALSE]
    /\ ble = NoOp
    /\ hist = NoHist
    /\ ticks = 0

\* main.cpp before setup(): the statics of loop() and system_task() are 0
NoTimers == [last_ble_send |-> 0, last_ble_check |-> 0, last_data_read |-> 0, loops |-> 0]

LoopIdle == current_state = SYSTEM_STATE_INIT /\ timers = NoTimers

-----------------------------------------------------------------------------
(* The Frame Transport on its own: one wait per behaviour, on any schedule *)

NoWait ==
    [variant |-> "none", pid |-> 0, timeout_ms |-> 0, start_time |-> 0,
     sched |-> <<>>, res |-> [status |-> STATUS_OK, length |-> 0, data |-> <<>>,
                              el |-> 0, seen |-> <<>>]]

NoRequest == [variant |-> "none", op |-> "none", pid |-> 0, endOk |-> TRUE,
              status |-> STATUS_OK, handed |-> <<>>, wire |-> <<>>]

CanIdle == can_initialized = FALSE /\ aw = NoWait /\ tx = NoRequest

\* what the caller keeps of a wait
Kept(r) == [status |-> r.status, length |-> r.length, data |-> r.data, el |-> r.el,
            seen |-> r.seen]

\* can_driver.cpp CAN_Init: can_initialized is set once CAN.begin() succeeded
CAN_Init ==
    /\ aw.variant = "none"
    /\ tx.variant = "none"
    /\ \E began \in BOOLEAN : can_initialized' = (began \/ can_initialized)
    /\ UNCHANGED <<uptime, aw, tx, obdVars, bleVars, loopVars>>

AwaitMCP ==
    /\ aw.variant = "none"
    /\ tx.variant = "none"
    /\ \E pid \in WaitPids, t \in 0..MaxTimeoutMs, sched \in Scheds, stale \in StaleFrames :
         LET r == MCP_ReceiveOBD2Response(pid, t, Millis, sched, stale) IN
         /\ aw' = [variant |-> "mcp2515", pid |-> pid, timeout_ms |-> t,
                   start_time |-> Millis, sched |-> sched, res |-> Kept(r)]
         /\ uptime' = uptime + r.el
    /\ UNCHANGED <<can_initialized, tx, obdVars, bleVars, loopVars>>

AwaitDRV ==
    /\ aw.variant = "none"
    /\ tx.variant = "none"
    /\ \E pid \in WaitPids, t \in 0..MaxTimeoutMs, sched \in Scheds, stale \in StaleFrames :
         LET r == DRV_ReceiveOBD2Response(can_initialized, pid, t, Millis, sched, stale) IN
         /\ aw' = [variant |-> "can_driver", pid |-> pid, timeout_ms |-> t,
                   start_time |-> Millis, sched |-> sched, res |-> Kept(r)]
         /\ uptime' = uptime + r.el
    /\ UNCHANGED <<can_initialized, tx, obdVars, bleVars, loopVars>>

\* the PIDs a request is sent for: the four of the handler, and the ends of uint8_t
SendPids ==
    {PID_ENGINE_RPM, PID_VEHICLE_SPEED, PID_ENGINE_COOLANT_TEMP, PID_THROTTLE_POSITION,
     0, ByteMod - 1}

Requested(variant, pid, endOk, r) ==
    [variant |-> variant, op |-> "request", pid |-> pid, endOk |-> endOk,
     status |-> r.status, handed |-> r.handed, wire |-> r.wire]

\* the frames handed to CAN_SendFrame on its own: length is a uint8_t, 0..8 by
\* the comment of CAN_Frame_t
TxLengths == {0, 8, 9, ByteMod - 1}

TxFrames ==
    { [id |-> OBD_ID_REQUEST, length |-> n, extended |-> FALSE, remote |-> FALSE,
       data |-> <<2, 1, 12, 0, 0, 0, 0, 0>>] : n \in TxLengths }

\* what is kept of a CAN_SendFrame call
Sent(variant, frame, endOk, status, wire) ==
    [variant |-> variant, op |-> "frame", pid |-> 0, endOk |-> endOk,
     status |-> status, handed |-> <<frame>>, wire |-> wire]

\* mcp2515_driver.cpp CAN_SendFrame(&frame): it returns a bool, kept as
\* STATUS_OK / STATUS_ERROR
SendFrameMCP ==
    /\ aw.variant = "none"
    /\ tx.variant = "none"
    /\ \E frame \in TxFrames, endOk \in BOOLEAN, junk \in {0, ByteMod - 1} :
         LET r == MCP_SendFrame(frame, [endOk |-> endOk, junk |-> junk]) IN
         tx' = Sent("mcp2515", frame, endOk,
                    IF r.ok THEN STATUS_OK ELSE STATUS_ERROR, r.wire)
    /\ UNCHANGED <<uptime, can_initialized, aw, obdVars, bleVars, loopVars>>

\* can_driver.cpp CAN_SendFrame(&frame)
SendFrameDRV ==
    /\ aw.variant = "none"
    /\ tx.variant = "none"
    /\ \E frame \in TxFrames, endOk \in BOOLEAN :
         LET r == DRV_SendFrame(can_initialized, frame, endOk) IN
         tx' = Sent("can_driver", frame, endOk, r.status, r.wire)
    /\ UNCHANGED <<uptime, can_initialized, aw, obdVars, bleVars, loopVars>>

SendMCP ==
    /\ aw.variant = "none"
    /\ tx.variant = "none"
    /\ \E pid \in SendPids, endOk \in BOOLEAN :
         tx' = Requested("mcp2515", pid, endOk, MCP_SendOBD2Request(pid, endOk))
    /\ UNCHANGED <<uptime, can_initialized, aw, obdVars, bleVars, loopVars>>

SendDRV ==
    /\ aw.variant = "none"
    /\ tx.variant = "none"
    /\ \E pid \in SendPids, endOk \in BOOLEAN :
         tx' = Requested("can_driver", pid, endOk,
                         DRV_SendOBD2Request(can_initialized, pid, endOk))
    /\ UNCHANGED <<uptime, can_initialized, aw, obdVars, bleVars, loopVars>>

InitCAN == uptime \in {0, ClockMod - WrapLead} /\ CanIdle /\ ObdIdle /\ BleIdle /\ LoopIdle

NextCAN ==
    \/ CAN_Init \/ AwaitMCP \/ AwaitDRV
    \/ SendMCP \/ SendDRV \/ SendFrameMCP \/ SendFrameDRV

SpecCAN == InitCAN /\ [][NextCAN]_vars

-----------------------------------------------------------------------------
(* Claims on the Frame Transport *)

Waited == aw.variant # "none"

\* the packet is a positive response to pid from an ECU
PktMatches(pkt, pid) ==
    /\ pkt.id >= OBD_ID_FIRST /\ pkt.id <= OBD_ID_LAST
    /\ pkt.length >= 3
    /\ pkt.data[2] = OBD_RESPONSE_POSITIVE
    /\ pkt.data[3] = pid

\* C8: a wait returns STATUS_OK only for a packet with an identifier in 0x7E8..0x7EF,
\* at least 3 bytes, second byte 0x41 and third byte the requested PID (both drivers)
C8_SuccessOnlyForMatchingFrame ==
    (Waited /\ aw.res.status = STATUS_OK) =>
        /\ aw.res.seen # <<>>
        /\ PktMatches(aw.res.seen[Len(aw.res.seen)], aw.pid)

\* a wait that skipped a matching payload under the identifier 0x7F0 and then
\* returned the response that followed it
C8_Witness ==
    /\ aw.variant = "mcp2515" /\ aw.res.status = STATUS_OK
    /\ Len(aw.res.seen) = 2
    /\ aw.res.seen[1].id = OBD_ID_LAST + 1
    /\ aw.res.seen[1].data = aw.res.seen[2].data

\* C9: a packet that is not the response is dropped and the wait goes on: a wait
\* that took packets from the bus and did not succeed ran until its timeout
C9_NonMatchingFrameIsSkipped ==
    (Waited /\ aw.res.seen # <<>> /\ aw.res.status # STATUS_OK) =>
        aw.res.el >= aw.timeout_ms

\* C10: with no response on the bus, a wait of an initialised driver returns
\* STATUS_TIMEOUT, not before timeout_ms and at most 1 ms after it
C10_TimeoutWithinBound ==
    (Waited /\ (aw.variant = "can_driver" => can_initialized)
            /\ \A i \in 1..Len(aw.sched) : ~PktMatches(aw.sched[i], aw.pid)) =>
        /\ aw.res.status = STATUS_TIMEOUT
        /\ aw.res.el >= aw.timeout_ms
        /\ aw.res.el <= aw.timeout_ms + 1

\* the packet a successful wait returned on
Accepted == aw.res.seen[Len(aw.res.seen)]

\* C11: a successful wait reports payload length - 3 data bytes, at most 5, and
\* hands back the packet's bytes after the third, in order (both drivers)
C11_DataIsPayloadTail ==
    (Waited /\ aw.res.status = STATUS_OK /\ Accepted.length \in 3..8) =>
        /\ aw.res.length = Accepted.length - 3
        /\ aw.res.length <= 5
        /\ aw.res.data = [i \in 1..(Accepted.length - 3) |-> Accepted.data[3 + i]]

SentRequest == tx.op = "request"

\* the transport was asked to send: the mcp2515 driver always is, can_driver.cpp
\* only once CAN_Init has succeeded
TransportReady == tx.variant = "can_driver" => can_initialized

\* the request is one standard data frame 0x7DF with the bytes 02 01 PID 00 00 00 00 00
OneRequestFrame ==
    /\ Len(tx.handed) = 1
    /\ tx.handed[1].id = OBD_ID_REQUEST
    /\ ~tx.handed[1].extended /\ ~tx.handed[1].remote
    /\ tx.handed[1].length = 8
    /\ tx.handed[1].data = <<2, 1, tx.pid, 0, 0, 0, 0, 0>>
    /\ tx.wire = <<[id |-> OBD_ID_REQUEST, extended |-> FALSE, remote |-> FALSE,
                    data |-> <<2, 1, tx.pid, 0, 0, 0, 0, 0>>]>>

\* C12 as stated: every request hands exactly one frame 0x7DF [02 01 PID 0 0 0 0 0]
\* to the transport and returns STATUS_ERROR when the send fails
C12_RequestFrame ==
    SentRequest => (OneRequestFrame /\ (~tx.endOk => tx.status = STATUS_ERROR))

\* C12 (amended): that holds once the transport is initialised; can_driver.cpp
\* before CAN_Init hands nothing to the transport and returns
\* STATUS_NOT_INITIALIZED
C12_RequestFrameWhenReady ==
    SentRequest =>
        IF TransportReady
        THEN /\ OneRequestFrame
             /\ tx.status = IF tx.endOk THEN STATUS_OK ELSE STATUS_ERROR
        ELSE tx.handed = <<>> /\ tx.wire = <<>> /\ tx.status = STATUS_NOT_INITIALIZED

\* a request for the coolant temperature whose send failed
C12_Witness ==
    /\ SentRequest /\ TransportReady
    /\ tx.pid = PID_ENGINE_COOLANT_TEMP /\ ~tx.endOk /\ tx.status = STATUS_ERROR

SentFrame == tx.op = "frame"

\* C25: CAN_SendFrame returns an error for every frame with a length above 8 and
\* gives the controller nothing to transmit for it (both drivers)
C25_LongFrameRejected ==
    (SentFrame /\ tx.handed[1].length > 8) =>
        (tx.status # STATUS_OK /\ tx.wire = <<>>)

\* C26: an operation of can_driver.cpp called before CAN_Init has succeeded
\* returns STATUS_NOT_INITIALIZED and neither writes a packet nor takes one from
\* the bus
C26_NotInitializedOnEveryOperation ==
    /\ (tx.variant = "can_driver" /\ ~can_initialized) =>
          (tx.status = STATUS_NOT_INITIALIZED /\ tx.wire = <<>>)
    /\ (aw.variant = "can_driver" /\ ~can_initialized) =>
          (aw.res.status = STATUS_NOT_INITIALIZED /\ aw.res.seen = <<>>)

-----------------------------------------------------------------------------
(* The telemetry aggregator on its own, over the mcp2515 driver *)

\* OBD2_Init(config): called by system_init; CAN_Init is CAN.begin() and may fail
OBD2_Init ==
    /\ ~obd2_initialized
    /\ \E config_null \in BOOLEAN, can_ok \in BOOLEAN :
         IF config_null \/ ~can_ok
         THEN UNCHANGED <<vehicle_data, obd2_initialized>>
         ELSE /\ vehicle_data' = [vehicle_data EXCEPT !.dataValid = FALSE,
                                                     !.engineRunning = FALSE,
                                                     !.lastUpdate = 0]
              /\ obd2_initialized' = TRUE
    /\ UNCHANGED <<uptime, canVars, data_callback, last_vehicle_data, cyc, lastRead,
                   bleVars, loopVars>>

\* OBD2_RegisterCallback(vehicle_data_callback), or with a null pointer; it
\* does not ask whether the handler is initialised
OBD2_RegisterCallback ==
    /\ ~data_callback
    /\ \E callback_null \in BOOLEAN : data_callback' = ~callback_null
    /\ UNCHANGED <<uptime, canVars, vehicle_data, obd2_initialized, last_vehicle_data, cyc,
                   lastRead, bleVars, loopVars>>

\* one call of OBD2_ReadAllData; the callback of main.cpp copies the record
OBD2_ReadAllData ==
    /\ cyc.n < MaxCycles
    /\ \E envs \in CycleEnvs :
         \E r \in {ReadAllData(obd2_initialized, data_callback, vehicle_data, envs,
                              uptime, cyc.n + 1)} :
             /\ vehicle_data' = r.vd
             /\ cyc' = r.cyc
             /\ last_vehicle_data' = IF r.cyc.called THEN r.vd ELSE last_vehicle_data
             /\ uptime' = r.end
    /\ UNCHANGED <<canVars, obd2_initialized, data_callback, lastRead, bleVars, loopVars>>

InitOBD == uptime = 0 /\ CanIdle /\ ObdIdle /\ BleIdle /\ LoopIdle

NextOBD == OBD2_Init \/ OBD2_RegisterCallback \/ OBD2_ReadAllData

SpecOBD == InitOBD /\ [][NextOBD]_vars

-----------------------------------------------------------------------------
(* Claims on the telemetry aggregator *)

\* a cycle has run to its end (the handler was initialised)
CycleRan == cyc.n > 0 /\ cyc.status # STATUS_NOT_INITIALIZED

\* C6: after every poll cycle in which the engine-speed request succeeded and a
\* value was decoded, data_valid is true, whatever the decoded value (0 included)
\* and whatever became of the other three requests
C6_ValidWheneverRpmSucceeds ==
    (CycleRan /\ cyc.st[1] = STATUS_OK /\ cyc.rpmDecoded) => vehicle_data.dataValid

\* C7: data_valid is true only if the engine-speed request of the most recent
\* poll cycle succeeded: a cycle whose engine-speed request failed leaves
\* data_valid false, even if an earlier cycle had set it true
C7_ValidOnlyIfLastCycleReadRpm ==
    (CycleRan /\ cyc.st[1] # STATUS_OK) => ~vehicle_data.dataValid

\* C16: after a poll cycle of an initialised handler, the field of every read that
\* did not succeed (send failed, timeout, response rejected) holds its sentinel:
\* 0 for engine speed, vehicle speed and throttle position, -40 for the coolant
\* temperature
C16_FailedReadStoresSentinel ==
    CycleRan =>
        /\ cyc.st[1] # STATUS_OK => vehicle_data.rpm = 0
        /\ cyc.st[2] # STATUS_OK => vehicle_data.speed = 0
        /\ cyc.st[3] # STATUS_OK => vehicle_data.coolantTemp = -40
        /\ cyc.st[4] # STATUS_OK => vehicle_data.throttlePosition = 0

\* engine speed 0..16383, vehicle speed 0..255, coolant temperature -40..215,
\* throttle position 0..100
InRange(v) ==
    /\ v.rpm \in 0..16383
    /\ v.speed \in 0..255
    /\ v.coolantTemp \in -40..215
    /\ v.throttlePosition \in 0..100

\* C17: the snapshot the aggregator holds after a poll cycle, and the one handed to
\* the consumer, has every parameter within its range
C17_SnapshotInRange ==
    /\ CycleRan => InRange(vehicle_data)
    /\ InRange(last_vehicle_data)

\* C18: a poll cycle of an initialised handler returns STATUS_OK if and only if all
\* four reads returned STATUS_OK, and STATUS_ERROR if any of them did not
C18_CycleStatus ==
    CycleRan =>
        /\ cyc.status = STATUS_OK <=> \A i \in 1..4 : cyc.st[i] = STATUS_OK
        /\ \A i \in 1..4 : cyc.st[i] # STATUS_OK => cyc.status = STATUS_ERROR

\* a cycle in which only the last read, the throttle position, failed
C18_Witness ==
    /\ CycleRan /\ cyc.status = STATUS_ERROR
    /\ \A i \in 1..3 : cyc.st[i] = STATUS_OK
    /\ cyc.st[4] # STATUS_OK

\* C19: with a callback registered, a poll cycle whose engine-speed request
\* succeeded and decoded a value invokes the callback (once, after the four
\* reads), whatever the engine speed decoded and whatever became of the other reads
C19_CallbackWheneverRpmSucceeds ==
    [][(cyc'.n = cyc.n + 1 /\ obd2_initialized /\ data_callback
            /\ cyc'.st[1] = STATUS_OK /\ cyc'.rpmDecoded)
        => cyc'.called]_vars

\* C20: after every poll cycle the engine-running flag of the snapshot is true
\* exactly if its engine speed is above 0, and so it is in the copy the callback
\* keeps for the consumer
C20_EngineRunningIffRpm ==
    /\ CycleRan => (vehicle_data.engineRunning <=> vehicle_data.rpm > 0)
    /\ last_vehicle_data.engineRunning <=> last_vehicle_data.rpm > 0

\* a cycle that read 1000 rpm and handed the snapshot to the callback, after one
\* that read 0 rpm
C20_Witness ==
    /\ CycleRan /\ cyc.n = 2 /\ cyc.called
    /\ vehicle_data.rpm = 1000 /\ vehicle_data.engineRunning
    /\ last_vehicle_data = vehicle_data

\* the PIDs of a poll cycle, in the order OBD2_ReadAllData reads them
CycleOrder ==
    <<PID_ENGINE_RPM, PID_VEHICLE_SPEED, PID_ENGINE_COOLANT_TEMP, PID_THROTTLE_POSITION>>

IsRequest(e) == e.ev = "request"

\* the PIDs requested in the last cycle, in the order of the requests
RequestedPids ==
    LET reqs == SelectSeq(cyc.log, IsRequest) IN [i \in 1..Len(reqs) |-> reqs[i].pid]

\* C21: in a poll cycle the requests go out in the order engine speed, vehicle
\* speed, coolant temperature, throttle position, and each request is followed by
\* the return of its own read before the next request is sent: never two
\* requests outstanding
C21_OneRequestAtATime ==
    CycleRan =>
        /\ RequestedPids = CycleOrder
        /\ \A i \in 1..Len(cyc.log) :
              IF cyc.log[i].ev = "request"
              THEN /\ i < Len(cyc.log)
                   /\ cyc.log[i + 1].ev = "returned"
                   /\ cyc.log[i + 1].pid = cyc.log[i].pid
                   /\ cyc.log[i + 1].at >= cyc.log[i].at
              ELSE i < Len(cyc.log) =>
                   /\ cyc.log[i + 1].ev = "request"
                   /\ cyc.log[i + 1].at >= cyc.log[i].at

\* a cycle in which the wait for the engine speed timed out after 500 ms and the
\* vehicle-speed request went out after it
C21_Witness ==
    /\ CycleRan /\ cyc.st[1] = STATUS_TIMEOUT /\ Len(cyc.log) = 8
    /\ cyc.log[2].at >= cyc.log[1].at + OBD2_REQUEST_TIMEOUT_MS
    /\ cyc.log[3].pid = PID_VEHICLE_SPEED /\ cyc.log[3].at > cyc.log[2].at

\* C22: in every poll cycle of an initialised handler each of the four PIDs is
\* requested exactly once, whatever the outcome of the reads before it and of its
\* own read; so it is in the cycle after a cycle with failures
C22_EachPidOncePerCycle ==
    CycleRan =>
        \A k \in 1..4 :
            Cardinality({ i \in 1..Len(cyc.log) :
                            IsRequest(cyc.log[i]) /\ cyc.log[i].pid = CycleOrder[k] }) = 1

\* a second cycle in which the first three reads failed (send failure, timeout)
\* and the throttle position was still requested and read
C22_Witness ==
    /\ CycleRan /\ cyc.n = 2
    /\ \A k \in 1..3 : cyc.st[k] # STATUS_OK
    /\ cyc.st[4] = STATUS_OK
    /\ Len(SelectSeq(cyc.log, IsRequest)) = 4

\* C38: while OBD2_Init has not succeeded (not called, null config, or the bus
\* could not be started), OBD2_ReadAllData returns STATUS_NOT_INITIALIZED, sends
\* no request, leaves the snapshot as it was and does not invoke the callback
C38_NoCycleBeforeInit ==
    [][(~obd2_initialized /\ cyc'.n = cyc.n + 1)
       => /\ cyc'.status = STATUS_NOT_INITIALIZED
          /\ cyc'.log = <<>>
          /\ vehicle_data' = vehicle_data
          /\ ~cyc'.called /\ last_vehicle_data' = last_vehicle_data
          /\ uptime' = uptime]_vars

\* the second call on a handler that is not initialised, with a callback registered
C38_Witness ==
    /\ ~obd2_initialized /\ data_callback
    /\ cyc.n = 2 /\ cyc.status = STATUS_NOT_INITIALIZED
    /\ vehicle_data = ZeroVehicleData /\ last_vehicle_data = ZeroVehicleData

-----------------------------------------------------------------------------
(* The four reads of the aggregator on their own: one call of one OBD2_Read*  *)
(* function per behaviour, with any data bytes in the response              *)

Bytes == 0..(ByteMod - 1)

\* the bus during a read on its own: the send fails, nobody answers, or an ECU
\* answers with the data bytes `bytes'
AnswerWith(pid, bytes) ==
    [sendOk |-> TRUE, sched |-> <<Response(<<Len(bytes) + 2, 65, pid>> \o bytes)>>]

SilentEnvs == { [sendOk |-> FALSE, sched |-> <<>>], [sendOk |-> TRUE, sched |-> <<>>] }

\* what is kept of the call: the data bytes of the response (none if there was
\* none), the status and the value *value holds after it
\* and, for every call so far, whether a response was received, its data bytes
\* and the value stored
ReadDone(pid, bytes, r) ==
    [pid |-> pid, bytes |-> bytes, status |-> r.status, value |-> r.value,
     decoded |-> r.decoded,
     log |-> Append(lastRead.log,
                    [pid |-> pid, received |-> r.status = STATUS_OK, bytes |-> bytes,
                     value |-> r.value])]

ReadRPM ==
    /\ lastRead.pid = 0
    /\ \/ \E A \in Bytes, B \in Bytes :
            lastRead' = ReadDone(PID_ENGINE_RPM, <<A, B>>,
                           OBD2_ReadRPM(obd2_initialized, vehicle_data.rpm,
                                        AnswerWith(PID_ENGINE_RPM, <<A, B>>), Millis))
       \/ \E env \in SilentEnvs :
            lastRead' = ReadDone(PID_ENGINE_RPM, <<>>,
                           OBD2_ReadRPM(obd2_initialized, vehicle_data.rpm, env, Millis))
    /\ UNCHANGED <<uptime, canVars, vehicle_data, obd2_initialized, data_callback,
                   last_vehicle_data, cyc, bleVars, loopVars>>

ReadSpeed ==
    /\ lastRead.pid = 0
    /\ \/ \E b \in Bytes :
            lastRead' = ReadDone(PID_VEHICLE_SPEED, <<b>>,
                           OBD2_ReadSpeed(obd2_initialized, vehicle_data.speed,
                                          AnswerWith(PID_VEHICLE_SPEED, <<b>>), Millis))
       \/ \E env \in SilentEnvs :
            lastRead' = ReadDone(PID_VEHICLE_SPEED, <<>>,
                           OBD2_ReadSpeed(obd2_initialized, vehicle_data.speed, env, Millis))
    /\ UNCHANGED <<uptime, canVars, vehicle_data, obd2_initialized, data_callback,
                   last_vehicle_data, cyc, bleVars, loopVars>>

ReadCoolantTemp ==
    /\ lastRead.pid = 0
    /\ \/ \E b \in Bytes :
            lastRead' = ReadDone(PID_ENGINE_COOLANT_TEMP, <<b>>,
                           OBD2_ReadCoolantTemp(obd2_initialized, vehicle_data.coolantTemp,
                                                AnswerWith(PID_ENGINE_COOLANT_TEMP, <<b>>),
                                                Millis))
       \/ \E env \in SilentEnvs :
            lastRead' = ReadDone(PID_ENGINE_COOLANT_TEMP, <<>>,
                           OBD2_ReadCoolantTemp(obd2_initialized, vehicle_data.coolantTemp,
                                                env, Millis))
    /\ UNCHANGED <<uptime, canVars, vehicle_data, obd2_initialized, data_callback,
                   last_vehicle_data, cyc, bleVars, loopVars>>

ReadThrottlePosition ==
    /\ lastRead.pid = 0
    /\ \/ \E b \in Bytes :
            lastRead' = ReadDone(PID_THROTTLE_POSITION, <<b>>,
                           OBD2_ReadThrottlePosition(obd2_initialized,
                                                     vehicle_data.throttlePosition,
                                                     AnswerWith(PID_THROTTLE_POSITION, <<b>>),
                                                     Millis))
       \/ \E env \in SilentEnvs :
            lastRead' = ReadDone(PID_THROTTLE_POSITION, <<>>,
                           OBD2_ReadThrottlePosition(obd2_initialized,
                                                     vehicle_data.throttlePosition, env,
                                                     Millis))
    /\ UNCHANGED <<uptime, canVars, vehicle_data, obd2_initialized, data_callback,
                   last_vehicle_data, cyc, bleVars, loopVars>>

InitRead == uptime = 0 /\ CanIdle /\ ObdIdle /\ BleIdle /\ LoopIdle

NextRead ==
    \/ lastRead.pid = 0 /\ OBD2_Init
    \/ ReadRPM
    \/ ReadSpeed
    \/ ReadCoolantTemp
    \/ ReadThrottlePosition

SpecRead == InitRead /\ [][NextRead]_vars

-----------------------------------------------------------------------------
(* Claims on the reads *)

\* the read was answered and a value was decoded from the response
Decoded(pid) == lastRead.pid = pid /\ lastRead.status = STATUS_OK /\ lastRead.decoded

\* C13: a successful engine-speed read stores floor((A*256 + B) / 4), for every
\* pair of data bytes A, B
C13_RpmIsQuarterOfWord ==
    Decoded(PID_ENGINE_RPM) =>
        lastRead.value = (lastRead.bytes[1] * 256 + lastRead.bytes[2]) \div 4

\* the read that was answered with 0x0F 0xA0 and stored 1000
C13_Witness ==
    Decoded(PID_ENGINE_RPM) /\ lastRead.bytes = <<15, 160>> /\ lastRead.value = 1000

\* C14: a successful coolant-temperature read stores b - 40, for every data
\* byte b (so the stored values range over -40..215)
C14_CoolantIsByteMinus40 ==
    Decoded(PID_ENGINE_COOLANT_TEMP) => lastRead.value = lastRead.bytes[1] - 40

\* C15: a successful throttle read stores floor(b * 100 / 255), a successful
\* vehicle-speed read stores b, and both results fit in 8 bits
C15_ThrottleAndSpeed ==
    /\ Decoded(PID_THROTTLE_POSITION) =>
          /\ lastRead.value = (lastRead.bytes[1] * 100) \div 255
          /\ lastRead.value \in 0..100
    /\ Decoded(PID_VEHICLE_SPEED) =>
          /\ lastRead.value = lastRead.bytes[1]
          /\ lastRead.value \in Bytes

\* the throttle read that was answered with 0xFF and stored 100
C15_Witness ==
    Decoded(PID_THROTTLE_POSITION) /\ lastRead.bytes = <<255>> /\ lastRead.value = 100

-----------------------------------------------------------------------------
(* The reads called again and again, in any order, each storing its value in *)
(* the field of vehicle_data that OBD2_ReadAllData passes to it              *)

MaxReads == 3

AllPids ==
    {PID_ENGINE_RPM, PID_VEHICLE_SPEED, PID_ENGINE_COOLANT_TEMP, PID_THROTTLE_POSITION}

\* the data bytes of the responses: none, fewer than the PID needs, and values
RereadBytes(pid) ==
    IF pid = PID_ENGINE_RPM THEN {<<>>, <<15>>, <<15, 160>>, <<0, 0>>}
    ELSE {<<>>, <<80>>, <<200>>}

\* the field of the snapshot a read writes to
Stored(vd, pid) ==
    IF pid = PID_ENGINE_RPM THEN vd.rpm
    ELSE IF pid = PID_VEHICLE_SPEED THEN vd.speed
    ELSE IF pid = PID_ENGINE_COOLANT_TEMP THEN vd.coolantTemp
    ELSE vd.throttlePosition

Store(vd, pid, value) ==
    IF pid = PID_ENGINE_RPM THEN [vd EXCEPT !.rpm = value]
    ELSE IF pid = PID_VEHICLE_SPEED THEN [vd EXCEPT !.speed = value]
    ELSE IF pid = PID_ENGINE_COOLANT_TEMP THEN [vd EXCEPT !.coolantTemp = value]
    ELSE [vd EXCEPT !.throttlePosition = value]

\* the OBD2_Read* function of a PID
ReadOf(pid, initialized, old, env, start) ==
    IF pid = PID_ENGINE_RPM THEN OBD2_ReadRPM(initialized, old, env, start)
    ELSE IF pid = PID_VEHICLE_SPEED THEN OBD2_ReadSpeed(initialized, old, env, start)
    ELSE IF pid = PID_ENGINE_COOLANT_TEMP
    THEN OBD2_ReadCoolantTemp(initialized, old, env, start)
    ELSE OBD2_ReadThrottlePosition(initialized, old, env, start)

\* one more call of a read: the send fails, nobody answers, or an ECU answers
Reread ==
    /\ Len(lastRead.log) < MaxReads
    /\ \E pid \in AllPids :
         \/ \E bytes \in RereadBytes(pid) :
              \E r \in {ReadOf(pid, obd2_initialized, Stored(vehicle_data, pid),
                               AnswerWith(pid, bytes), Millis)} :
                  /\ lastRead' = ReadDone(pid, bytes, r)
                  /\ vehicle_data' = Store(vehicle_data, pid, r.value)
                  /\ uptime' = uptime + r.el
         \/ \E env \in SilentEnvs :
              \E r \in {ReadOf(pid, obd2_initialized, Stored(vehicle_data, pid), env,
                               Millis)} :
                  /\ lastRead' = ReadDone(pid, <<>>, r)
                  /\ vehicle_data' = Store(vehicle_data, pid, r.value)
                  /\ uptime' = uptime + r.el
    /\ UNCHANGED <<canVars, obd2_initialized, data_callback, last_vehicle_data, cyc,
                   bleVars, loopVars>>

NextReread == OBD2_Init \/ Reread

SpecReread == InitRead /\ [][NextReread]_vars

\* C31: two reads of the same PID that received the same data bytes stored the
\* same value, whatever reads, failures and snapshot contents lay between them
C31_SameBytesSameValue ==
    \A i \in DOMAIN lastRead.log, j \in DOMAIN lastRead.log :
        ( /\ lastRead.log[i].received /\ lastRead.log[j].received
          /\ lastRead.log[i].pid = lastRead.log[j].pid
          /\ lastRead.log[i].bytes = lastRead.log[j].bytes )
        => lastRead.log[i].value = lastRead.log[j].value

\* C37: a read that returned STATUS_OK stored a value decoded from the data
\* bytes of the response: no read answered with too few data bytes returns
\* STATUS_OK with the sentinel stored
C37_OkMeansDecoded ==
    (lastRead.pid # 0 /\ lastRead.status = STATUS_OK) => lastRead.decoded

\* an engine-speed response without enough data bytes read twice, with a read
\* that stored 1000 rpm in the snapshot between the two
C31_Witness ==
    /\ Len(lastRead.log) = 3
    /\ \A i \in {1, 3} : /\ lastRead.log[i].pid = PID_ENGINE_RPM
                          /\ lastRead.log[i].received
                          /\ lastRead.log[i].bytes = <<15>>
    /\ lastRead.log[2].pid = PID_ENGINE_RPM /\ lastRead.log[2].value = 1000

-----------------------------------------------------------------------------
(* The BLE service on its own: its operations in any order, the peer        *)
(* connecting and disconnecting, and time passing between the operations.   *)

\* the steps by which time passes: 99 + 1 is the throttle interval,
\* 9900 + 99 + 1 the activity timeout
TickSteps == {1, 99, 9900}

\* the first operation may come this long after boot, or this long before millis() wraps
BootMs == 5000
BleWrapLead == 100

Done(op, ret, notified, forced) ==
    [op |-> op, ret |-> ret, notified |-> notified, forced |-> forced]

\* the history after an operation at `at' that recorded an activity (active) and
\* pushed a data notification (notified)
Noted(h, at, active, notified) ==
    [h EXCEPT !.notePrev = IF notified THEN h.noteLast ELSE h.notePrev,
              !.noteLast = IF notified THEN at ELSE h.noteLast,
              !.activityAt = IF active THEN at ELSE h.activityAt]

\* the history after an operation at `at' that marked the session connected
Marked(h, at, became) == [h EXCEPT !.connectedAt = IF became THEN at ELSE @]

\* the history after a call of checkConnectionTimeout at `at'
Checked(h, at, forced) == [h EXCEPT !.forcedAt = IF forced THEN at ELSE h.forcedAt]

Tick ==
    /\ ticks < MaxTicks
    /\ \E d \in TickSteps : uptime' = uptime + d
    /\ ticks' = ticks + 1
    /\ ble' = Done("tick", STATUS_OK, FALSE, FALSE)
    /\ UNCHANGED <<canVars, obdVars, g_bleService, radio, hist, loopVars>>

\* a peer connects: the stack stops advertising, counts the peer and calls onConnect
PeerConnect ==
    /\ radio.connectedCount = 0 /\ radio.advertising
    /\ radio' = [connectedCount |-> 1, advertising |-> FALSE, peerSilent |-> FALSE]
    /\ g_bleService' = OnConnect(g_bleService, Millis)
    /\ ble' = Done("onConnect", STATUS_OK, FALSE, FALSE)
    /\ hist' = Marked(Noted(hist, uptime, TRUE, FALSE), uptime, TRUE)
    /\ UNCHANGED <<uptime, canVars, obdVars, ticks, loopVars>>

\* the peer disconnects: the stack drops the peer and calls onDisconnect, which
\* starts advertising after its delay
PeerDisconnect ==
    /\ radio.connectedCount > 0
    /\ ticks < MaxTicks
    /\ ticks' = ticks + 1
    /\ radio' = [connectedCount |-> radio.connectedCount - 1, advertising |-> TRUE,
                 peerSilent |-> FALSE]
    /\ g_bleService' = OnDisconnect(g_bleService)
    /\ uptime' = AdvertisingRestart(uptime, DisconnectSettleMs)
    /\ ble' = Done("onDisconnect", STATUS_OK, FALSE, FALSE)
    /\ UNCHANGED <<canVars, obdVars, hist, loopVars>>

\* BLE_SendVehicleData(data)
sendVehicleData ==
    /\ \E data_null \in BOOLEAN :
         LET r == SendVehicleData(g_bleService, data_null, Millis) IN
         /\ g_bleService' = r.s
         /\ ble' = Done("sendVehicleData", r.ret, r.notified, FALSE)
         /\ hist' = Noted(hist, uptime, r.notified, r.notified)
    /\ UNCHANGED <<uptime, canVars, obdVars, radio, ticks, loopVars>>

\* BLE_SendSystemStatus(state, wifiConnected, rssi)
sendSystemStatus ==
    /\ ble' = Done("sendSystemStatus", SendSystemStatus(g_bleService).ret,
                   SendSystemStatus(g_bleService).notified, FALSE)
    /\ UNCHANGED <<uptime, canVars, obdVars, g_bleService, radio, hist, ticks, loopVars>>

\* BLE_UpdateStatus()
updateConnectionStatus ==
    /\ g_bleService' = UpdateConnectionStatus(g_bleService, radio.connectedCount)
    /\ ble' = Done("updateConnectionStatus", STATUS_OK, FALSE, FALSE)
    /\ hist' = Marked(hist, uptime,
                      ~g_bleService.deviceConnected /\ radio.connectedCount > 0)
    /\ UNCHANGED <<uptime, canVars, obdVars, radio, ticks, loopVars>>

\* g_bleService->checkConnectionTimeout()
checkConnectionTimeout ==
    /\ LET r == CheckConnectionTimeout(g_bleService, Millis) IN
         /\ g_bleService' = r.s
         /\ ble' = Done("checkConnectionTimeout", STATUS_OK, FALSE, r.forced)
         /\ uptime' = IF r.forced THEN AdvertisingRestart(uptime, TimeoutSettleMs)
                      ELSE uptime
         /\ radio' = IF r.forced THEN [radio EXCEPT !.advertising = TRUE] ELSE radio
         /\ hist' = Checked(hist, uptime, r.forced)
    /\ UNCHANGED <<canVars, obdVars, ticks, loopVars>>

InitBLE ==
    /\ uptime \in {BootMs, ClockMod - BleWrapLead}
    /\ CanIdle /\ ObdIdle /\ BleIdle /\ LoopIdle

NextBLE ==
    \/ Tick
    \/ PeerConnect
    \/ PeerDisconnect
    \/ sendVehicleData
    \/ sendSystemStatus
    \/ updateConnectionStatus
    \/ checkConnectionTimeout

SpecBLE == InitBLE /\ [][NextBLE]_vars

-----------------------------------------------------------------------------
(* Claims on the BLE service *)

\* ms since the activity that was recorded last (a connect event or a pushed
\* data notification)
SinceActivity == uptime - hist.activityAt

\* C2: checkConnectionTimeout called on a connected session, 10 000 ms or more
\* after the last recorded activity, leaves the session not connected, whatever
\* the stack's connected count
C2_TimeoutAtTenSeconds ==
    [][(/\ ble'.op = "checkConnectionTimeout"
        /\ g_bleService.deviceConnected
        /\ hist.activityAt >= 0
        /\ SinceActivity >= ActivityTimeoutMs)
       => ~g_bleService'.deviceConnected]_vars

\* C4: any two data notifications are at least 100 ms apart
C4_NotificationsThrottled ==
    hist.notePrev >= 0 => hist.noteLast - hist.notePrev >= DataSendMinIntervalMs

\* a notification pushed exactly 100 ms after the one before it
C4_Witness ==
    /\ ble.op = "sendVehicleData" /\ ble.notified
    /\ hist.notePrev >= 0
    /\ hist.noteLast = uptime
    /\ hist.noteLast - hist.notePrev = DataSendMinIntervalMs

\* C5: sendVehicleData on a session that is not connected returns STATUS_ERROR,
\* pushes no notification and changes neither the flags nor the timestamps
C5_SendWhileNotConnected ==
    [][(ble'.op = "sendVehicleData" /\ ~g_bleService.deviceConnected)
       => /\ ble'.ret = STATUS_ERROR
          /\ ~ble'.notified
          /\ g_bleService' = g_bleService
          /\ hist' = hist]_vars

\* a send refused on a session that had pushed notifications before and was then
\* given up by the watchdog, the peer still being counted by the stack
C5_Witness ==
    /\ ble.op = "sendVehicleData" /\ ble.ret = STATUS_ERROR
    /\ ~g_bleService.deviceConnected
    /\ radio.connectedCount > 0
    /\ hist.noteLast >= 0

\* C27: a connect event leaves the session connected, with the last activity at
\* the time of the event, whatever the flags and timestamps were before
C27_ConnectResetsSession ==
    [][ble'.op = "onConnect"
       => /\ g_bleService'.deviceConnected
          /\ g_bleService'.oldDeviceConnected
          /\ g_bleService'.lastActivityTime = uptime' % ClockMod]_vars

\* a peer that connects after an earlier session had pushed data and ended
C27_Witness ==
    /\ ble.op = "onConnect" /\ g_bleService.deviceConnected
    /\ hist.noteLast >= 0 /\ hist.noteLast < uptime
    /\ g_bleService.lastActivityTime = Millis
    /\ g_bleService.lastDataSend # g_bleService.lastActivityTime

\* the operation ended a session: onDisconnect, or the watchdog gave it up
Disconnected(b) ==
    b.op = "onDisconnect" \/ (b.op = "checkConnectionTimeout" /\ b.forced)

\* C28: every disconnect, explicit or forced by the watchdog, leaves the session
\* not connected and the stack advertising, and advertising is started no sooner
\* than 500 ms after the disconnect was handled
C28_AdvertisingAfterSettle ==
    [][Disconnected(ble')
       => /\ ~g_bleService'.deviceConnected
          /\ radio'.advertising
          /\ uptime' - uptime >= TimeoutSettleMs]_vars

\* the watchdog gave up a session whose peer the stack still counts, and
\* advertising is on again
C28_Witness ==
    /\ ble.op = "checkConnectionTimeout" /\ ble.forced
    /\ radio.connectedCount > 0 /\ radio.advertising
    /\ ~g_bleService.deviceConnected
    /\ uptime = hist.forcedAt + TimeoutSettleMs

\* C29: sendSystemStatus returns STATUS_ERROR and pushes nothing on a session
\* that is not connected, and pushes a status notification on every call on a
\* connected one, however shortly after another notification
C29_StatusGatedNotThrottled ==
    [][ble'.op = "sendSystemStatus"
       => IF g_bleService.deviceConnected
          THEN ble'.ret = STATUS_OK /\ ble'.notified
          ELSE ble'.ret = STATUS_ERROR /\ ~ble'.notified]_vars

\* a status notification pushed in the same millisecond as a data notification
C29_Witness ==
    /\ ble.op = "sendSystemStatus" /\ ble.notified
    /\ hist.noteLast = uptime

\* C32: a sendVehicleData call that pushes a notification sets lastDataSend and
\* lastActivityTime to the time of the call; a call the throttle suppresses
\* returns STATUS_OK and leaves the timestamps and the connected flags as they were
C32_SendTimestamps ==
    [][ble'.op = "sendVehicleData"
       => /\ ble'.notified
               => /\ g_bleService'.lastDataSend = Millis
                  /\ g_bleService'.lastActivityTime = Millis
          /\ (g_bleService.deviceConnected /\ ble'.ret = STATUS_OK /\ ~ble'.notified)
               => g_bleService' = g_bleService]_vars

\* a call suppressed by the throttle, 1 to 99 ms after the last notification
C32_Witness ==
    /\ ble.op = "sendVehicleData" /\ ble.ret = STATUS_OK /\ ~ble.notified
    /\ g_bleService.deviceConnected
    /\ hist.noteLast >= 0 /\ uptime - hist.noteLast \in 1..99
    /\ g_bleService.lastDataSend = hist.noteLast % ClockMod
    /\ g_bleService.lastActivityTime = g_bleService.lastDataSend

\* the watchdog has given the session up and no peer has connected since (a
\* connect, like a notification, is an activity later than the forced disconnect)
ForcedAndNoConnectSince == hist.forcedAt >= 0 /\ hist.forcedAt > hist.activityAt

\* C35: once the watchdog has forced the disconnect, the session stays not
\* connected until the next connect event, also while getConnectedCount() > 0
C35_ForcedStaysDisconnected ==
    ForcedAndNoConnectSince => ~g_bleService.deviceConnected

\* C39: after every operation of the service the connected flag and the
\* previous-connected flag are equal
C39_FlagsAgree ==
    g_bleService.deviceConnected = g_bleService.oldDeviceConnected

\* both flags set again by updateConnectionStatus after a forced disconnect
C39_Witness ==
    /\ ble.op = "updateConnectionStatus" /\ hist.forcedAt > hist.activityAt
    /\ g_bleService.deviceConnected /\ g_bleService.oldDeviceConnected

\* C30: the connected flag goes from connected to not connected only in
\* onDisconnect or when the watchdog gives the session up, and from not
\* connected to connected only in onConnect
C30_FlagChangesOnlyByEvents ==
    [][/\ (g_bleService.deviceConnected /\ ~g_bleService'.deviceConnected)
            => Disconnected(ble')
       /\ (~g_bleService.deviceConnected /\ g_bleService'.deviceConnected)
            => ble'.op = "onConnect"]_vars

-----------------------------------------------------------------------------
(* The BLE service with a second peer: advertising is on again after a forced *)
(* disconnect while the stack still counts the first peer                     *)

WaitSteps == {101, 9900}

Wait ==
    /\ ticks < MaxTicks
    /\ \E d \in WaitSteps : uptime' = uptime + d
    /\ ticks' = ticks + 1
    /\ ble' = Done("tick", STATUS_OK, FALSE, FALSE)
    /\ UNCHANGED <<canVars, obdVars, g_bleService, radio, hist, loopVars>>

\* a second peer connects while the first is still counted: onConnect again
SecondPeerConnect ==
    /\ radio.connectedCount = 1 /\ radio.advertising
    /\ radio' = [radio EXCEPT !.connectedCount = 2, !.advertising = FALSE]
    /\ g_bleService' = OnConnect(g_bleService, Millis)
    /\ ble' = Done("onConnect", STATUS_OK, FALSE, FALSE)
    /\ hist' = Marked(Noted(hist, uptime, TRUE, FALSE), uptime, TRUE)
    /\ UNCHANGED <<uptime, canVars, obdVars, ticks, loopVars>>

NextPeers ==
    \/ Wait
    \/ PeerConnect
    \/ SecondPeerConnect
    \/ PeerDisconnect
    \/ sendVehicleData
    \/ updateConnectionStatus
    \/ checkConnectionTimeout

SpecPeers == InitBLE /\ [][NextPeers]_vars

\* C36: the watchdog forces a disconnect no sooner than 10 s after the session
\* last became connected (onConnect, or updateConnectionStatus) and no sooner
\* than 10 s after the last data notification
C36_NoEarlyForcedDisconnect ==
    [][(ble'.op = "checkConnectionTimeout" /\ ble'.forced)
       => /\ uptime - hist.connectedAt >= ActivityTimeoutMs
          /\ hist.noteLast >= 0 => uptime - hist.noteLast >= ActivityTimeoutMs]_vars

-----------------------------------------------------------------------------
(* The watchdog at its cadence: system_task calls checkConnectionTimeout     *)
(* every 2000 ms; the peer may fall silent without a disconnect event, and   *)
(* nothing is published to a silent peer.                                    *)

\* system_task: if (current_time - last_ble_check >= 2000)
WatchdogPeriodMs == 2000

\* the connected peer stops answering; the stack delivers no event and keeps
\* counting it
PeerFallsSilent ==
    /\ radio.connectedCount > 0 /\ ~radio.peerSilent
    /\ g_bleService.deviceConnected
    /\ radio' = [radio EXCEPT !.peerSilent = TRUE]
    /\ ble' = Done("silent", STATUS_OK, FALSE, FALSE)
    /\ hist' = [hist EXCEPT !.silentAt = uptime]
    /\ UNCHANGED <<uptime, canVars, obdVars, g_bleService, ticks, loopVars>>

\* sendVehicleData, called only while the peer is not silent
PublishTelemetry == ~radio.peerSilent /\ sendVehicleData

\* 2000 ms pass, then system_task calls checkConnectionTimeout
WatchdogRound ==
    /\ ticks < MaxRounds
    /\ ticks' = ticks + 1
    /\ LET at == uptime + WatchdogPeriodMs
           r == CheckConnectionTimeout(g_bleService, at % ClockMod)
       IN  /\ g_bleService' = r.s
           /\ ble' = Done("checkConnectionTimeout", STATUS_OK, FALSE, r.forced)
           /\ uptime' = IF r.forced THEN at + TimeoutSettleMs ELSE at
           /\ radio' = IF r.forced THEN [radio EXCEPT !.advertising = TRUE] ELSE radio
           /\ hist' = Checked(hist, at, r.forced)
    /\ UNCHANGED <<canVars, obdVars, loopVars>>

InitWatch ==
    /\ uptime \in {BootMs, ClockMod - WatchdogPeriodMs}
    /\ CanIdle /\ ObdIdle /\ BleIdle /\ LoopIdle

NextWatch ==
    \/ PeerConnect
    \/ PeerFallsSilent
    \/ PublishTelemetry
    \/ updateConnectionStatus
    \/ WatchdogRound

\* the cadence keeps running
SpecWatch == InitWatch /\ [][NextWatch]_vars /\ WF_vars(WatchdogRound)

\* the rounds that are left cover the timeout and two more periods
RoomForTimeout ==
    (MaxRounds - ticks) * WatchdogPeriodMs >= ActivityTimeoutMs + 2 * WatchdogPeriodMs

\* a connected session whose peer is silent, early enough for the timeout
SilentSession ==
    radio.peerSilent /\ g_bleService.deviceConnected /\ RoomForTimeout

\* the session is not connected and the stack advertises
GivenUp == ~g_bleService.deviceConnected /\ radio.advertising

\* when the checkConnectionTimeout call of the step was made
CheckedAt == IF ble'.forced THEN hist'.forcedAt ELSE uptime'

\* C40: the decisions on elapsed time are those of an unbounded clock, also when
\* the clock wraps and when a timestamp is recorded while it reads 0: a
\* connected session whose last activity (a connect or a notification) is on
\* record is given up exactly when more than 10 s have passed since it, and a
\* notification is pushed exactly when 100 ms have passed since the last one
C40_DecisionsAsUnboundedClock ==
    [][/\ ( /\ ble'.op = "checkConnectionTimeout"
            /\ g_bleService.deviceConnected
            /\ hist.activityAt > hist.forcedAt )
          => (ble'.forced <=> CheckedAt - hist.activityAt > ActivityTimeoutMs)
       /\ ( /\ ble'.op = "sendVehicleData" /\ ble'.ret = STATUS_OK
            /\ g_bleService.deviceConnected
            /\ hist.noteLast >= 0 )
          => (ble'.notified <=> uptime - hist.noteLast >= DataSendMinIntervalMs)]_vars

\* C3: a connected session whose peer is silent, with checkConnectionTimeout called
\* at its cadence and nothing published, becomes not connected, and advertising
\* has been started again when it has
C3_WatchdogGivesUpSilentSession == SilentSession ~> GivenUp

\* the watchdog has just given up a silent session that the stack still counts,
\* more than 10 s after its last activity
C3_Witness ==
    /\ ble.op = "checkConnectionTimeout" /\ ble.forced
    /\ radio.peerSilent /\ radio.connectedCount > 0
    /\ ~g_bleService.deviceConnected /\ radio.advertising
    /\ hist.noteLast >= 0
    /\ SinceActivity > ActivityTimeoutMs

-----------------------------------------------------------------------------
(* main.cpp (v2.0): setup() and loop() *)

\* system_task: if (current_time - last_data_read >= 200)
PollPeriodMs == 200
\* loop: BLE_SEND_INTERVAL
BLE_SEND_INTERVAL == 200
\* loop: delay(10)
LoopDelayMs == 10
\* system_init: 20 attempts, 500 ms apart, before WiFi is given up
WifiGiveUpMs == 10000

\* the bus during a poll cycle started by the loop: every request is answered,
\* or none is
Answered(pid) == [sendOk |-> TRUE, sched |-> <<CHOOSE p \in Responses(pid) : TRUE>>]
Unanswered == [sendOk |-> TRUE, sched |-> <<>>]
LoopEnvs ==
    { <<Answered(PID_ENGINE_RPM), Answered(PID_VEHICLE_SPEED),
        Answered(PID_ENGINE_COOLANT_TEMP), Answered(PID_THROTTLE_POSITION)>>,
      <<Unanswered, Unanswered, Unanswered, Unanswered>> }

\* system_init(): BLE_Init has succeeded; CAN.begin() may fail in CAN_InitMCP2515
\* or in OBD2_Init, and WiFi connects at once or not at all
system_init ==
    /\ current_state = SYSTEM_STATE_INIT
    /\ \E can_ok \in BOOLEAN, obd_ok \in BOOLEAN, wifi \in BOOLEAN :
         IF ~can_ok \/ ~obd_ok
         THEN /\ current_state' = SYSTEM_STATE_ERROR
              /\ UNCHANGED <<uptime, vehicle_data, obd2_initialized, data_callback>>
         ELSE /\ vehicle_data' = [vehicle_data EXCEPT !.dataValid = FALSE,
                                                     !.engineRunning = FALSE,
                                                     !.lastUpdate = 0]
              /\ obd2_initialized' = TRUE
              /\ data_callback' = TRUE
              /\ current_state' = IF wifi THEN SYSTEM_STATE_CONNECTED
                                  ELSE SYSTEM_STATE_IDLE
              /\ uptime' = IF wifi THEN uptime ELSE uptime + WifiGiveUpMs
    /\ UNCHANGED <<canVars, last_vehicle_data, cyc, lastRead, bleVars, timers>>

\* (mutant of PollDue: a poll cycle is due on every pass)
PollDue_EveryPass(current_time, last_data_read) == TRUE

\* if (current_time - last_data_read >= 200)
PollDue(current_time, last_data_read) ==
    Sub(current_time, last_data_read) >= PollPeriodMs

\* (mutant of StateAfterPoll: a failed poll cycle is escalated to ERROR)
StateAfterPoll_Escalates(state, status) ==
    IF status = STATUS_OK THEN SYSTEM_STATE_CONNECTED ELSE SYSTEM_STATE_ERROR

\* system_task(): if (status == STATUS_OK) current_state = SYSTEM_STATE_CONNECTED
StateAfterPoll(state, status) ==
    IF status = STATUS_OK THEN SYSTEM_STATE_CONNECTED ELSE state

\* system_task(): what one call leaves behind, given the watchdog's outcome chk
\* and the poll cycle's outcome rd
TaskOutcome(chk, checks, due, polls, at, rd) ==
    [s |-> chk.s, checked |-> checks, checkedAt |-> at, forced |-> chk.forced,
     polled |-> polls, vd |-> rd.vd, cyc |-> rd.cyc, end |-> rd.end,
     state |-> IF polls THEN StateAfterPoll(current_state, rd.cyc.status)
               ELSE current_state,
     last_ble_check |-> IF checks THEN at % ClockMod ELSE timers.last_ble_check,
     last_data_read |-> IF due THEN at % ClockMod ELSE timers.last_data_read]

\* system_task(): the watchdog at its cadence, then the poll cycle at its cadence
SystemTask(envs) ==
    LET at == uptime
        current_time == at % ClockMod
        checks == Sub(current_time, timers.last_ble_check) >= WatchdogPeriodMs
        chk == IF checks THEN CheckConnectionTimeout(g_bleService, current_time)
               ELSE [s |-> g_bleService, forced |-> FALSE]
        t2 == IF chk.forced THEN AdvertisingRestart(at, TimeoutSettleMs) ELSE at
        due == PollDue(current_time, timers.last_data_read)
        polls == due /\ current_state # SYSTEM_STATE_ERROR
    IN  TaskOutcome(chk, checks, due, polls, at,
                    IF polls
                    THEN ReadAllData(obd2_initialized, data_callback, vehicle_data,
                                     envs, t2, cyc.n + 1)
                    ELSE [vd |-> vehicle_data, cyc |-> cyc, end |-> t2])

\* one iteration of loop(): handleClient (no HTTP client is served: it returns at
\* once), system_task, BLE_UpdateStatus, the telemetry notification at its
\* cadence, delay(10)
loop ==
    /\ current_state # SYSTEM_STATE_INIT
    /\ timers.loops < MaxLoops
    /\ \E envs \in LoopEnvs :
       \E t \in {SystemTask(envs)} :
         LET current_time == Millis
             s1 == UpdateConnectionStatus(t.s, radio.connectedCount)
             sends == s1.deviceConnected
                      /\ Sub(current_time, timers.last_ble_send) >= BLE_SEND_INTERVAL
             snd == IF sends THEN SendVehicleData(s1, FALSE, t.end % ClockMod)
                    ELSE [s |-> s1, ret |-> STATUS_OK, notified |-> FALSE]
         IN  /\ g_bleService' = snd.s
             /\ radio' = IF t.forced THEN [radio EXCEPT !.advertising = TRUE] ELSE radio
             /\ vehicle_data' = t.vd
             /\ cyc' = t.cyc
             /\ last_vehicle_data' = IF t.polled /\ t.cyc.called THEN t.vd
                                     ELSE last_vehicle_data
             /\ current_state' = t.state
             /\ timers' = [last_ble_send |-> IF sends THEN current_time
                                           ELSE timers.last_ble_send,
                          last_ble_check |-> t.last_ble_check,
                          last_data_read |-> t.last_data_read,
                          loops |-> timers.loops + 1]
             /\ ble' = Done("loop", snd.ret, snd.notified, t.forced)
             /\ hist' = Marked(Noted(Checked(hist, t.checkedAt, t.forced), t.end,
                                     snd.notified, snd.notified),
                               t.end, ~t.s.deviceConnected /\ s1.deviceConnected)
             /\ uptime' = t.end + LoopDelayMs
    /\ UNCHANGED <<canVars, obd2_initialized, data_callback, lastRead, ticks>>

InitLoop == uptime = 0 /\ CanIdle /\ ObdIdle /\ BleIdle /\ LoopIdle

\* the peer's events, once setup() has run
Booted == current_state # SYSTEM_STATE_INIT

NextLoop ==
    \/ system_init
    \/ loop
    \/ Booted /\ PeerConnect
    \/ Booted /\ PeerFallsSilent

SpecLoop == InitLoop /\ [][NextLoop]_vars

-----------------------------------------------------------------------------
(* main.cpp (v1.0): setup() and loop() without the BLE service *)

\* system_init() of v1.0: OBD2_Init may fail (CAN.begin() in CAN_Init); the state
\* set after it is overwritten by the WiFi section, which runs in either case
system_init_v1 ==
    /\ current_state = SYSTEM_STATE_INIT
    /\ \E obd_ok \in BOOLEAN, wifi \in BOOLEAN :
         /\ IF obd_ok
            THEN /\ vehicle_data' = [vehicle_data EXCEPT !.dataValid = FALSE,
                                                        !.engineRunning = FALSE,
                                                        !.lastUpdate = 0]
                 /\ obd2_initialized' = TRUE
                 /\ data_callback' = TRUE
            ELSE UNCHANGED <<vehicle_data, obd2_initialized, data_callback>>
         \* IDLE or ERROR after OBD2_Init, then CONNECTING, then:
         /\ current_state' = IF wifi THEN SYSTEM_STATE_CONNECTED ELSE SYSTEM_STATE_IDLE
         /\ uptime' = IF wifi THEN uptime ELSE uptime + WifiGiveUpMs
    /\ UNCHANGED <<canVars, last_vehicle_data, cyc, lastRead, bleVars, timers>>

\* one iteration of loop() of v1.0: handleClient, system_task (the poll cycle at
\* its cadence, unless the state is ERROR), delay(10)
loop_v1 ==
    /\ current_state # SYSTEM_STATE_INIT
    /\ timers.loops < MaxLoops
    /\ LET current_time == Millis
           due == PollDue(current_time, timers.last_data_read)
           polls == due /\ current_state # SYSTEM_STATE_ERROR
       IN  /\ \E envs \in LoopEnvs :
                \E r \in {IF polls
                          THEN ReadAllData(obd2_initialized, data_callback, vehicle_data,
                                           envs, uptime, cyc.n + 1)
                          ELSE [vd |-> vehicle_data, cyc |-> cyc, end |-> uptime]} :
                    /\ vehicle_data' = r.vd
                    /\ cyc' = r.cyc
                    /\ last_vehicle_data' = IF polls /\ r.cyc.called THEN r.vd
                                            ELSE last_vehicle_data
                    /\ current_state' = IF polls
                                         THEN StateAfterPoll(current_state, r.cyc.status)
                                         ELSE current_state
                    /\ uptime' = r.end + LoopDelayMs
           /\ timers' = [timers EXCEPT
                            !.last_data_read = IF due THEN current_time ELSE @,
                            !.loops = @ + 1]
    /\ UNCHANGED <<canVars, obd2_initialized, data_callback, lastRead, bleVars>>

NextLoopV1 == system_init_v1 \/ loop_v1

SpecLoopV1 == InitLoop /\ [][NextLoopV1]_vars

-----------------------------------------------------------------------------
(* Claims on the control loop *)

\* ms since the connected peer fell silent
SinceSilent == uptime - hist.silentAt

\* twice the activity timeout: the timeout, the watchdog period and the longest
\* iteration of loop() fit in it more than once
Patience == 2 * ActivityTimeoutMs

\* C1: in the control loop a connected session whose peer has fallen silent,
\* with no disconnect event and the stack still counting the peer, leaves
\* CONNECTED: by the time the silence has lasted twice the activity timeout the
\* watchdog has given the session up
C1_LoopGivesUpSilentSession ==
    (radio.peerSilent /\ SinceSilent >= Patience) => hist.forcedAt >= hist.silentAt

\* system_task called checkConnectionTimeout in the step: last_ble_check was set
WatchdogInvoked == timers'.last_ble_check # timers.last_ble_check

\* C33: checkConnectionTimeout called by system_task on a session that is not
\* connected changes no field of the session and does not start advertising, and
\* two calls by system_task are at least 2000 ms apart
C33_IdleCheckIsNoOp ==
    [][WatchdogInvoked
       => /\ Sub(timers'.last_ble_check, timers.last_ble_check) >= WatchdogPeriodMs
          /\ ~g_bleService.deviceConnected
               => /\ g_bleService' = g_bleService
                  /\ radio' = radio
                  /\ ~ble'.forced]_vars

\* the watchdog was called for at least the second time and no peer has ever
\* connected
C33_Witness ==
    /\ ble.op = "loop"
    /\ timers.last_ble_check >= 2 * WatchdogPeriodMs
    /\ hist.activityAt = -1 /\ radio.connectedCount = 0
    /\ g_bleService = NewService /\ radio.advertising

\* C34: an iteration of loop() starts at most one poll cycle, and it starts one
\* only when the state is not ERROR and at least 200 ms have passed since the
\* tick at which the previous cycle was started
C34_PollCadence ==
    [][timers'.loops = timers.loops + 1
       => /\ cyc'.n \in {cyc.n, cyc.n + 1}
          /\ cyc'.n = cyc.n + 1
               => /\ current_state # SYSTEM_STATE_ERROR
                  /\ Sub(Millis, timers.last_data_read) >= PollPeriodMs
                  /\ cyc.log # <<>> => uptime - cyc.log[1].at >= PollPeriodMs
                  /\ timers'.last_data_read = Millis]_vars

\* two poll cycles have been started, and an iteration in between started none
C34_Witness ==
    /\ cyc.n >= 2 /\ cyc.log # <<>>
    /\ timers.loops > cyc.n + 1
    /\ current_state # SYSTEM_STATE_ERROR

\* setup() has run and the bus hardware could not be initialised
BusInitFailed == Booted /\ ~obd2_initialized

\* C23: if the initialisation of the bus hardware fails in system_init, the state
\* is ERROR when setup() ends and in every state of the loop after it, and no
\* poll cycle is run
C23_InitFailureIsPermanentError ==
    BusInitFailed => (current_state = SYSTEM_STATE_ERROR /\ cyc = NoCycle)

\* C24: once the handler is initialised, no iteration of loop() moves the state
\* to ERROR, whatever the poll cycle met on the bus, and every iteration in which
\* the 200 ms of the poll cadence have passed runs a poll cycle with its four
\* requests
C24_PollFailuresAreNotFatal ==
    [][(obd2_initialized /\ timers'.loops = timers.loops + 1) =>
          /\ current_state' # SYSTEM_STATE_ERROR
          /\ Sub(Millis, timers.last_data_read) >= PollPeriodMs =>
                /\ cyc'.n = cyc.n + 1
                /\ Len(SelectSeq(cyc'.log, IsRequest)) = 4]_vars

\* WiFi was given up and two poll cycles have run, none of which succeeded: the
\* state is still IDLE
C24_Witness ==
    /\ obd2_initialized /\ current_state = SYSTEM_STATE_IDLE
    /\ cyc.n >= 2 /\ cyc.status = STATUS_ERROR
    /\ cyc.st[1] = STATUS_TIMEOUT

====
